---- MODULE Spec2Model ----
(***************************************************************************)
(* A model of the generic Model engine of knex-model                       *)
(* (src/src/model/index.ts, src/src/model/key.ts): the derived validation  *)
(* schemas, the query compiler, the bulk operations and their              *)
(* exactly-one counterparts, run against a relational table with optional  *)
(* caller-supplied transactions.                                           *)
(*                                                                         *)
(* The concrete table of the model is the key model                        *)
(*     fields = { key: integerKeySchema, name: labelStringSchema }         *)
(* A JavaScript property name is a sequence of symbols: "!name" is         *)
(* <<"!", "name">>, so that charAt(0) is Head and substr(1) is Tail.       *)
(* A JavaScript value carries its type: the number 1 is [n |-> 1] and the  *)
(* string "a" is [s |-> "a"].                                               *)
(* A filter value is [tag, vals]: a scalar v is ["scalar", <<v>>], an      *)
(* array is ["array", its elements] and undefined is ["undefined", <<>>].  *)
(* A query is [isArray, items]: a single query item q is [FALSE, <<q>>].   *)
(***************************************************************************)
EXTENDS Integers, Sequences, FiniteSets, TLC

VARIABLES table,    \* the committed rows of the table
          nextKey,  \* the backend's serial for the key column
          trx,      \* the caller's transaction: [open, view]
          call,     \* the operation the caller awaits or has just been answered
          instance, \* the model constructed: [kind, args, made]
          applied,  \* the helper function last applied: [fn, input, output]
          sessions  \* the destroyOne calls that run at the same time, by caller

vars == <<table, nextKey, trx, call, instance, applied, sessions>>

---------------------------------------------------------------------------
(* Bounds of the model. *)

\* keys the serial hands out: 1..MaxKey
MaxKey == 2
\* entries of one query item
MaxEntries == 2
\* items of a query that is a list
MaxItems == 2
\* largest limit and offset option
MaxLimit == 1
\* entries of the values list of one create
MaxBatch == 2
\* operations the caller runs in one transaction of its own
MaxTrxOps == 1
\* the number of fields of a fields object passed to a constructor
MaxFields == 2
\* violations in one validation error, and messages in one custom error object
MaxViolations == 3

---------------------------------------------------------------------------
(* The table definition. *)

\* Object.keys(this.fields)
fieldNames == <<"key", "name">>

\* fieldNames(true): the fields without the primary key
nonKeyFieldNames == SelectSeq(fieldNames, LAMBDA f : f # "key")

Range(s) == {s[i] : i \in DOMAIN s}

\* Joi.number().integer().positive().max(maxValue)
integerKeyMaxValue == 2147483647

\* stands for a string of more than 256 characters
LongLabel == "longer-than-256"

Number(n) == [n |-> n]
String(s) == [s |-> s]
IsNumber(v) == DOMAIN v = {"n"}
IsString(v) == DOMAIN v = {"s"}

KeyValues == {Number(n) : n \in 1..MaxKey}
NameValues == {String("a"), String("b")}

\* labelStringSchema: Joi.string().max(256)
labelMaxLength == 256

\* the length of a string value
Length(v) == IF v.s = LongLabel THEN labelMaxLength + 1 ELSE 1

\* does value v conform to the schema of field f (convert: false)
Conforms(f, v) ==
    IF f = "key" THEN IsNumber(v) /\ v.n > 0 /\ v.n <= integerKeyMaxValue
    ELSE IsString(v) /\ Length(v) <= labelMaxLength

\* the values of field f a caller may submit: conforming ones and one that is not
Submitted(f) ==
    IF f = "key" THEN KeyValues \cup {Number(0)} ELSE NameValues \cup {String(LongLabel)}

\* the values of field f a stored row may hold
Stored(f) == IF f = "key" THEN KeyValues ELSE NameValues

Rows == [key : KeyValues, name : NameValues]

\* the primary key is unique
Tables == {t \in SUBSET Rows : \A r1, r2 \in t : r1.key = r2.key => r1 = r2}

---------------------------------------------------------------------------
(* Derived validation schemas. *)

\* a property name with its leading '!' removed: key.substr(1)
substr1(k) == Tail(k)

\* key.charAt(0) === '!'
isNegated(k) == Len(k) > 0 /\ Head(k) = "!"

\* the field a property name of a query item refers to
FieldOf(k) == IF isNegated(k) THEN substr1(k)[1] ELSE k[1]

\* the schema object: its child keys and the dependency rules attached to it
\* map[fieldName] = map[`!${fieldName}`] = Joi.alternatives([...])
queryItemObject ==
    [children |-> {<<f>> : f \in Range(fieldNames)} \cup {<<"!", f>> : f \in Range(fieldNames)},
     dependencies |-> {}]

\* Joi's object.xor(...peers): a NEW schema carrying the rule, the receiver is not changed
xor(schema, peers) == [schema EXCEPT !.dependencies = @ \cup {peers}]

\* the query item schema with every xor rule kept
queryItemSchemaWithXor ==
    [queryItemObject EXCEPT
        !.dependencies = {{<<f>>, <<"!", f>>} : f \in Range(fieldNames)}]

\* Object.keys(this.fields).forEach(f => { queryItemValidationSchema.xor(f, `!${f}`) }):
\* each result of xor is dropped, so the schema in use is the one built before the loop
queryItemValidationSchema ==
    LET dropped == {xor(queryItemObject, {<<f>>, <<"!", f>>}) : f \in Range(fieldNames)}
    IN  queryItemObject

\* Joi.alternatives([fieldValidationSchema, Joi.array().items(fieldValidationSchema)]),
\* presence optional, convert false: an undefined property counts as absent
ValidFilterValue(f, v) ==
    CASE v.tag = "undefined" -> TRUE
      [] v.tag = "scalar" -> Conforms(f, v.vals[1])
      [] OTHER -> \A i \in DOMAIN v.vals : Conforms(f, v.vals[i])

\* a property is present when the object has it with a value other than undefined
Present(item, k) == \E i \in DOMAIN item : item[i].k = k /\ item[i].v.tag # "undefined"

\* validation of one query item against an object schema
ValidatesItem(schema, item) ==
    /\ \A i \in DOMAIN item : item[i].k \in schema.children
    /\ \A i \in DOMAIN item : ValidFilterValue(FieldOf(item[i].k), item[i].v)
    /\ \A peers \in schema.dependencies :
           Cardinality({k \in peers : Present(item, k)}) = 1

\* this.queryValidationSchema.validate(query): one item, or an array of items
queryValidationSchema(query) ==
    \A i \in DOMAIN query.items : ValidatesItem(queryItemValidationSchema, query.items[i])

\* the property names of an object and the value of one of them
Keys(obj) == {obj[i].k : i \in DOMAIN obj}
Get(obj, f) == obj[CHOOSE i \in DOMAIN obj : obj[i].k = f].v

\* the create schema with allowUnknown: properties that are no field pass
createValuesAllowsUnknown(values) ==
    /\ Range(nonKeyFieldNames) \subseteq Keys(values)
    /\ \A f \in Range(nonKeyFieldNames) : Conforms(f, Get(values, f))

\* Joi.object(pickBy(fields, key !== 'key')) with presence 'required'
createValuesValidationSchema(values) ==
    /\ Keys(values) = Range(nonKeyFieldNames)
    /\ \A f \in Keys(values) : Conforms(f, Get(values, f))

\* Joi.object(pickBy(fields, key !== 'key')) with presence 'optional'
updateValuesValidationSchema(values) ==
    /\ Keys(values) \subseteq Range(nonKeyFieldNames)
    /\ \A f \in Keys(values) : Conforms(f, Get(values, f))

---------------------------------------------------------------------------
(* The query compiler. *)

NoError == "none"

\* WhereOf without the check of empty arrays: the array goes to whereIn as it is
WhereOfEmptyArrayPasses(entry) ==
    IF entry.v.tag = "undefined"
    THEN [error |-> "An undefined value has been passed.", type |-> "none",
          column |-> <<>>, vals |-> <<>>]
    ELSE [error |-> NoError,
          type |-> IF entry.v.tag = "array"
                   THEN IF isNegated(entry.k) THEN "whereNotIn" ELSE "whereIn"
                   ELSE IF isNegated(entry.k) THEN "whereNot" ELSE "where",
          column |-> IF isNegated(entry.k) THEN substr1(entry.k) ELSE entry.k,
          vals |-> entry.v.vals]

\* WhereOf with the negated scalar compiled as an equality
WhereOfNegationIgnored(entry) ==
    IF entry.v.tag = "array" /\ Len(entry.v.vals) = 0
    THEN [error |-> "An empty array has been passed.", type |-> "none",
          column |-> <<>>, vals |-> <<>>]
    ELSE IF entry.v.tag = "undefined"
    THEN [error |-> "An undefined value has been passed.", type |-> "none",
          column |-> <<>>, vals |-> <<>>]
    ELSE [error |-> NoError,
          type |-> IF entry.v.tag = "array"
                   THEN IF isNegated(entry.k) THEN "whereNotIn" ELSE "whereIn"
                   ELSE "where",
          column |-> IF isNegated(entry.k) THEN substr1(entry.k) ELSE entry.k,
          vals |-> entry.v.vals]

\* the where statement one entry of a query item adds, or the error it throws
WhereOf(entry) ==
    IF entry.v.tag = "array"
    THEN IF Len(entry.v.vals) = 0
         THEN [error |-> "An empty array has been passed.", type |-> "none",
               column |-> <<>>, vals |-> <<>>]
         ELSE IF isNegated(entry.k)
              THEN [error |-> NoError, type |-> "whereNotIn",
                    column |-> substr1(entry.k), vals |-> entry.v.vals]
              ELSE [error |-> NoError, type |-> "whereIn",
                    column |-> entry.k, vals |-> entry.v.vals]
    ELSE IF entry.v.tag = "undefined"
         THEN [error |-> "An undefined value has been passed.", type |-> "none",
               column |-> <<>>, vals |-> <<>>]
         ELSE IF isNegated(entry.k)
              THEN [error |-> NoError, type |-> "whereNot",
                    column |-> substr1(entry.k), vals |-> entry.v.vals]
              ELSE [error |-> NoError, type |-> "where",
                    column |-> entry.k, vals |-> entry.v.vals]

\* lodash.forEach over the item's entries in their order: the first throw ends it
prepareQueryItemParamters(queryItem) ==
    LET stmts == [i \in DOMAIN queryItem |-> WhereOf(queryItem[i])]
        bad == {i \in DOMAIN stmts : stmts[i].error # NoError}
    IN  IF bad = {}
        THEN [error |-> NoError, wheres |-> stmts]
        ELSE [error |-> stmts[CHOOSE i \in bad : \A j \in bad : i <= j].error,
              wheres |-> <<>>]

\* the builder after prepareQueryParameters: the statements of a single item are
\* added at once; for a list every item becomes an orWhere(callback) that knex
\* calls only when it compiles the statement
prepareQueryParameters(query) ==
    IF query.isArray
    THEN [error |-> NoError, wheres |-> <<>>, wrapped |-> query.items]
    ELSE LET r == prepareQueryItemParamters(query.items[1])
         IN  [error |-> r.error, wheres |-> r.wheres, wrapped |-> <<>>]

\* knex compiling the builder's where statements: each wrapped callback is run
\* now; the terms of the clause, each with the boolean that joins it to the
\* terms before it. A group that added no statement compiles to nothing.
toSQL(builder) ==
    LET groups == [i \in DOMAIN builder.wrapped |->
                       prepareQueryItemParamters(builder.wrapped[i])]
        bad == {i \in DOMAIN groups : groups[i].error # NoError}
        direct == [i \in DOMAIN builder.wheres |->
                       [bool |-> "and", all |-> <<builder.wheres[i]>>]]
        kept == SelectSeq(groups, LAMBDA g : Len(g.wheres) > 0)
        ored == [i \in DOMAIN kept |-> [bool |-> "or", all |-> kept[i].wheres]]
    IN  IF bad = {}
        THEN [error |-> NoError, terms |-> direct \o ored]
        ELSE [error |-> groups[CHOOSE i \in bad : \A j \in bad : i <= j].error,
              terms |-> <<>>]

\* one where statement on one row
Holds(row, w) ==
    LET x == row[w.column[1]]
    IN  CASE w.type = "where" -> x = w.vals[1]
          [] w.type = "whereNot" -> x # w.vals[1]
          [] w.type = "whereIn" -> x \in Range(w.vals)
          [] OTHER -> x \notin Range(w.vals)

TermHolds(row, term) == \A i \in DOMAIN term.all : Holds(row, term.all[i])

\* the where clause on one row: AND binds tighter than OR, no clause is TRUE
Satisfies(row, terms) ==
    \/ terms = <<>>
    \/ \E i \in DOMAIN terms :
          /\ i = 1 \/ terms[i].bool = "or"
          /\ \A j \in i..Len(terms) :
                (\A k \in (i + 1)..j : terms[k].bool = "and") => TermHolds(row, terms[j])

Matching(rows, terms) == {r \in rows : Satisfies(r, terms)}

---------------------------------------------------------------------------
(* The backend: statements run against the rows visible in a session. *)

\* an event at the backend: a transaction boundary or a statement, and the
\* transaction it belongs to ("none", "own" or "caller")
Event(ev, transaction) == [ev |-> ev, trx |-> transaction]

\* the outcome of an operation in a session: the error thrown (or none), the
\* documents returned, the number count() returns, the rows of the session and
\* the serial after it, the backend events, and the number of rows the backend
\* reported for the bulk statement (-1: no statement result)
Outcome(error, documents, n, rows, serial, log, matched) ==
    [error |-> error, documents |-> documents, count |-> n, rows |-> rows,
     serial |-> serial, log |-> log, matched |-> matched]

\* an operation that throws before its statement is sent
Thrown(error, rows, serial) == Outcome(error, <<>>, 0, rows, serial, <<>>, -1)

\* a statement the backend rejects: the statement was sent, nothing is changed
Rejected(code, kind, transaction, rows, serial) ==
    Outcome(code, <<>>, 0, rows, serial, <<Event(kind, transaction)>>, -1)

\* the sequences that list every element of S once
Perms(S) ==
    {s \in [1..Cardinality(S) -> S] : \A i, j \in 1..Cardinality(S) : i # j => s[i] # s[j]}

\* the collation of the stored names
Collation == <<"a", "b">>

Rank(f, v) == IF f = "key" THEN v.n ELSE CHOOSE i \in DOMAIN Collation : Collation[i] = v.s

\* must r1 precede r2 under the orderBy clauses, applied in their sequence
RECURSIVE Before(_, _, _)
Before(r1, r2, orderBy) ==
    IF orderBy = <<>> THEN FALSE
    ELSE LET c == Head(orderBy)
             a == Rank(c.column, r1[c.column])
             b == Rank(c.column, r2[c.column])
         IN  IF a = b THEN Before(r1, r2, Tail(orderBy))
             ELSE IF c.direction = "desc" THEN a > b ELSE a < b

\* the orders in which the backend may return the rows S: any order the
\* orderBy clauses do not exclude
Orderings(S, orderBy) ==
    {s \in Perms(S) : \A i, j \in DOMAIN s : i < j => ~Before(s[j], s[i], orderBy)}

\* an option of type number that the caller left out (undefined)
Absent == -1

\* if (n): undefined and 0 are falsy
Truthy(n) == n # Absent /\ n # 0

\* if (options.offset) ... offset(n); if (options.limit) ... limit(n)
Page(s, limit, offset) ==
    LET skipped == IF Truthy(offset) THEN SubSeq(s, offset + 1, Len(s)) ELSE s
    IN  IF Truthy(limit)
        THEN SubSeq(skipped, 1, IF limit < Len(skipped) THEN limit ELSE Len(skipped))
        ELSE skipped

\* row r with the columns of values overwritten
UpdateRow(r, values) ==
    [f \in DOMAIN r |-> IF f \in Keys(values) THEN Get(values, f) ELSE r[f]]

\* the column constraints of the table: the columns that exist, NOT NULL, and
\* the column types
ColumnError(values, required) ==
    IF ~(Keys(values) \subseteq Range(fieldNames)) THEN "42703"
    ELSE IF ~(required \subseteq Keys(values)) THEN "23502"
    ELSE IF \E f \in Keys(values) : Get(values, f) \notin Stored(f) THEN "22001"
    ELSE NoError

\* a multi-row insert: the entries in order, a missing key taken from the serial.
\* Yields [error, key, rows, serial, documents]; on an error nothing is
\* inserted, and key is the key value a unique violation is about.
RECURSIVE InsertAll(_, _, _, _)
InsertAll(rows, serial, values, docs) ==
    IF values = <<>>
    THEN [error |-> NoError, key |-> Number(0), rows |-> rows, serial |-> serial,
          documents |-> docs]
    ELSE LET v == Head(values)
             hasKey == "key" \in Keys(v)
             row == [f \in Range(fieldNames) |->
                        IF f \in Keys(v) THEN Get(v, f) ELSE Number(serial)]
             bad == IF \E i \in DOMAIN values : ~(Keys(values[i]) \subseteq Range(fieldNames))
                    THEN "42703"
                    ELSE ColumnError(v, Range(nonKeyFieldNames))
         IN  IF bad # NoError
             THEN [error |-> bad, key |-> Number(0), rows |-> rows, serial |-> serial,
                   documents |-> <<>>]
             ELSE IF \E r \in rows : r.key = row.key
             THEN [error |-> "23505", key |-> row.key, rows |-> rows, serial |-> serial,
                   documents |-> <<>>]
             ELSE InsertAll(rows \cup {row}, IF hasKey THEN serial ELSE serial + 1,
                            Tail(values), Append(docs, row))

---------------------------------------------------------------------------
(* The bulk operations of Model, each in the session its statement runs in:  *)
(* rows are the rows visible there, serial the key serial. Each yields the   *)
(* set of its possible outcomes (the backend chooses the order of the rows   *)
(* it returns).  options is [isQueryValidationDisabled,                      *)
(* isValuesValidationDisabled, orderBy, limit, offset, transaction].         *)

\* The errors thrown inside create are [name, code, table, detail]: a
\* validation error has no code; a backend error is named by its code and
\* carries the table and, possibly, a detail text (a sequence of pieces).
tableName == "users"

NoDetail == [present |-> FALSE, text |-> <<>>]
Detail(text) == [present |-> TRUE, text |-> text]

ValidationError ==
    [name |-> "ValidationError", code |-> "undefined", table |-> "", detail |-> NoDetail]

BackendError(code) == [name |-> code, code |-> code, table |-> tableName, detail |-> NoDetail]

\* the detail text of a unique violation: Key (fields)=(values) already exists.
KeyExists(fields, values) ==
    <<"Key (">> \o fields \o <<")=(">> \o values \o <<") already exists.">>

\* The errors with which the backend may reject an insert that repeats the key
\* value v: the detail names the key and the value, or is left out (the
\* backend omits it when the role may not read the column).
UniqueViolation(v) ==
    {[name |-> "23505", code |-> "23505", table |-> tableName, detail |-> d] :
        d \in {Detail(KeyExists(<<"key">>, <<ToString(v.n)>>)), NoDetail}}

\* the errors a rejected insert r raises
BackendErrors(r) ==
    IF r.error = "23505" THEN UniqueViolation(r.key) ELSE {BackendError(r.error)}

\* text.match(/^Key \((.*)\)=\((.*)\) already exists.$/): the two groups, the
\* first one greedy; matched is FALSE for null
match(text) ==
    LET seps == {i \in 2..(Len(text) - 1) : text[i] = ")=("}
    IN  IF /\ Len(text) >= 3
           /\ text[1] = "Key ("
           /\ text[Len(text)] = ") already exists."
           /\ seps # {}
        THEN LET last == CHOOSE i \in seps : \A j \in seps : j <= i
             IN  [matched |-> TRUE, g1 |-> SubSeq(text, 2, last - 1),
                  g2 |-> SubSeq(text, last + 1, Len(text) - 1)]
        ELSE [matched |-> FALSE, g1 |-> <<>>, g2 |-> <<>>]

\* text.split(separator): the texts between the separators
RECURSIVE split(_, _)
split(text, separator) ==
    IF \A i \in DOMAIN text : text[i] # separator
    THEN <<text>>
    ELSE LET first == CHOOSE i \in DOMAIN text :
                          text[i] = separator /\ \A j \in 1..(i - 1) : text[j] # separator
         IN  <<SubSeq(text, 1, first - 1)>>
                 \o split(SubSeq(text, first + 1, Len(text)), separator)

\* new EntityExistsError(knexError): the error the constructor yields, or the
\* TypeError it throws when knexError.detail is undefined or does not match
EntityExistsError(knexError) ==
    LET matches == match(knexError.detail.text)
        fields == split(matches.g1, ", ")
        values == split(matches.g2, ", ")
    IN  IF ~knexError.detail.present \/ ~matches.matched
        THEN [name |-> "TypeError", fields |-> <<>>, values |-> <<>>, detail |-> {}]
        ELSE [name |-> "EntityExistsError",
              fields |-> [i \in DOMAIN fields |-> <<knexError.table, fields[i]>>],
              values |-> values,
              detail |-> {[field |-> f, input |-> values, table |-> knexError.table] :
                             f \in Range(fields)}]

\* createCatch wrapping every backend error, whatever its code
createCatchWrapsAll(err) ==
    IF err.code = "undefined" THEN err.name ELSE EntityExistsError(err).name

\* catch (err) { switch (err.code) { case '23505': throw new EntityExistsError(err) ... } }:
\* the name of the error that leaves create
createCatch(err) == IF err.code = "23505" THEN EntityExistsError(err).name ELSE err.name

\* create validating only the first of the values it is given
createValidatesFirstOnly(rows, serial, values, options) ==
    IF ~options.isValuesValidationDisabled /\ ~createValuesValidationSchema(values[1])
    THEN {Thrown(createCatch(ValidationError), rows, serial)}
    ELSE LET r == InsertAll(rows, serial, values, <<>>)
         IN  IF r.error # NoError
             THEN {Rejected(createCatch(err), "insert", options.transaction, rows, serial) :
                       err \in BackendErrors(r)}
             ELSE {Outcome(NoError, r.documents, 0, r.rows, r.serial,
                           <<Event("insert", options.transaction)>>, Len(r.documents))}

\* create validating and inserting the values one after the other: the values
\* before the first one that fails its validation are inserted
createEachInTurn(rows, serial, values, options) ==
    LET bad == {i \in DOMAIN values : ~createValuesValidationSchema(values[i])}
        first == IF bad = {} \/ options.isValuesValidationDisabled THEN Len(values) + 1
                 ELSE CHOOSE i \in bad : \A j \in bad : i <= j
        r == InsertAll(rows, serial, SubSeq(values, 1, first - 1), <<>>)
        log == [i \in 1..(first - 1) |-> Event("insert", options.transaction)]
    IN  IF r.error # NoError
        THEN {Rejected(createCatch(err), "insert", options.transaction, rows, serial) :
                  err \in BackendErrors(r)}
        ELSE IF first <= Len(values)
        THEN {Outcome(createCatch(ValidationError), <<>>, 0, r.rows, r.serial, log, -1)}
        ELSE {Outcome(NoError, r.documents, 0, r.rows, r.serial, log, Len(r.documents))}

create(rows, serial, values, options) ==
    IF /\ ~options.isValuesValidationDisabled
       /\ \E i \in DOMAIN values : ~createValuesValidationSchema(values[i])
    THEN {Thrown(createCatch(ValidationError), rows, serial)}
    ELSE LET r == InsertAll(rows, serial, values, <<>>)
         IN  IF r.error # NoError
             THEN {Rejected(createCatch(err), "insert", options.transaction, rows, serial) :
                       err \in BackendErrors(r)}
             ELSE {Outcome(NoError, r.documents, 0, r.rows, r.serial,
                           <<Event("insert", options.transaction)>>, Len(r.documents))}

\* find that never adds the query's where statements to the builder
findUnfiltered(rows, serial, query, options) ==
    IF ~options.isQueryValidationDisabled /\ ~queryValidationSchema(query)
    THEN {Thrown("ValidationError", rows, serial)}
    ELSE {Outcome(NoError, Page(s, options.limit, options.offset), 0, rows, serial,
                  <<Event("select", options.transaction)>>,
                  Len(Page(s, options.limit, options.offset))) :
              s \in Orderings(rows, options.orderBy)}

find(rows, serial, query, options) ==
    IF ~options.isQueryValidationDisabled /\ ~queryValidationSchema(query)
    THEN {Thrown("ValidationError", rows, serial)}
    ELSE LET builder == prepareQueryParameters(query)
             sql == toSQL(builder)
         IN  IF builder.error # NoError THEN {Thrown(builder.error, rows, serial)}
             ELSE IF sql.error # NoError THEN {Thrown(sql.error, rows, serial)}
             ELSE {Outcome(NoError, Page(s, options.limit, options.offset), 0, rows, serial,
                           <<Event("select", options.transaction)>>,
                           Len(Page(s, options.limit, options.offset))) :
                       s \in Orderings(Matching(rows, sql.terms), options.orderBy)}

\* count that never calls transacting: its statement runs outside any transaction
countIgnoresTransaction(rows, serial, query, options) ==
    IF ~options.isQueryValidationDisabled /\ ~queryValidationSchema(query)
    THEN {Thrown("ValidationError", rows, serial)}
    ELSE LET builder == prepareQueryParameters(query)
             sql == toSQL(builder)
         IN  IF builder.error # NoError THEN {Thrown(builder.error, rows, serial)}
             ELSE IF sql.error # NoError THEN {Thrown(sql.error, rows, serial)}
             ELSE {Outcome(NoError, <<>>, Cardinality(Matching(rows, sql.terms)), rows, serial,
                           <<Event("count", "none")>>, -1)}

\* count built on delete().returning(): it counts the rows it deletes
countDeletes(rows, serial, query, options) ==
    IF ~options.isQueryValidationDisabled /\ ~queryValidationSchema(query)
    THEN {Thrown("ValidationError", rows, serial)}
    ELSE LET builder == prepareQueryParameters(query)
             sql == toSQL(builder)
             hit == Matching(rows, sql.terms)
         IN  IF builder.error # NoError THEN {Thrown(builder.error, rows, serial)}
             ELSE IF sql.error # NoError THEN {Thrown(sql.error, rows, serial)}
             ELSE {Outcome(NoError, <<>>, Cardinality(hit), rows \ hit, serial,
                           <<Event("count", options.transaction)>>, -1)}

count(rows, serial, query, options) ==
    IF ~options.isQueryValidationDisabled /\ ~queryValidationSchema(query)
    THEN {Thrown("ValidationError", rows, serial)}
    ELSE LET builder == prepareQueryParameters(query)
             sql == toSQL(builder)
         IN  IF builder.error # NoError THEN {Thrown(builder.error, rows, serial)}
             ELSE IF sql.error # NoError THEN {Thrown(sql.error, rows, serial)}
             ELSE {Outcome(NoError, <<>>, Cardinality(Matching(rows, sql.terms)), rows, serial,
                           <<Event("count", options.transaction)>>, -1)}

\* Update values without any property: knex either refuses to compile the
\* statement ("Empty .update() call detected!") or, in a release without that
\* check, compiles the where clause and sends a statement the backend rejects
\* as a syntax error (42601).
update(rows, serial, query, values, options) ==
    IF ~options.isQueryValidationDisabled /\ ~queryValidationSchema(query)
    THEN {Thrown("ValidationError", rows, serial)}
    ELSE IF ~options.isValuesValidationDisabled /\ ~updateValuesValidationSchema(values)
    THEN {Thrown("ValidationError", rows, serial)}
    ELSE LET builder == prepareQueryParameters(query)
             sql == toSQL(builder)
             hit == Matching(rows, sql.terms)
             new == {UpdateRow(r, values) : r \in hit}
             after == (rows \ hit) \cup new
         IN  IF builder.error # NoError THEN {Thrown(builder.error, rows, serial)}
             ELSE IF Keys(values) = {}
             THEN {Thrown("Empty .update() call detected!", rows, serial),
                   IF sql.error # NoError THEN Thrown(sql.error, rows, serial)
                   ELSE Rejected("42601", "update", options.transaction, rows, serial)}
             ELSE IF sql.error # NoError THEN {Thrown(sql.error, rows, serial)}
             ELSE IF ColumnError(values, {}) = "42703" \/ (hit # {} /\ ColumnError(values, {}) # NoError)
             THEN {Rejected(ColumnError(values, {}), "update", options.transaction, rows, serial)}
             ELSE IF Cardinality({r.key : r \in after}) # Cardinality(rows)
             THEN {Rejected("23505", "update", options.transaction, rows, serial)}
             ELSE {Outcome(NoError, docs, 0, after, serial,
                           <<Event("update", options.transaction)>>, Len(docs)) :
                       docs \in Perms(new)}

\* destroy built on select instead of delete: the rows are returned and stay
destroySelects(rows, serial, query, options) ==
    IF ~options.isQueryValidationDisabled /\ ~queryValidationSchema(query)
    THEN {Thrown("ValidationError", rows, serial)}
    ELSE LET builder == prepareQueryParameters(query)
             sql == toSQL(builder)
             hit == Matching(rows, sql.terms)
         IN  IF builder.error # NoError THEN {Thrown(builder.error, rows, serial)}
             ELSE IF sql.error # NoError THEN {Thrown(sql.error, rows, serial)}
             ELSE {Outcome(NoError, docs, 0, rows, serial,
                           <<Event("delete", options.transaction)>>, Len(docs)) :
                       docs \in Perms(hit)}

destroy(rows, serial, query, options) ==
    IF ~options.isQueryValidationDisabled /\ ~queryValidationSchema(query)
    THEN {Thrown("ValidationError", rows, serial)}
    ELSE LET builder == prepareQueryParameters(query)
             sql == toSQL(builder)
             hit == Matching(rows, sql.terms)
         IN  IF builder.error # NoError THEN {Thrown(builder.error, rows, serial)}
             ELSE IF sql.error # NoError THEN {Thrown(sql.error, rows, serial)}
             ELSE {Outcome(NoError, docs, 0, rows \ hit, serial,
                           <<Event("delete", options.transaction)>>, Len(docs)) :
                       docs \in Perms(hit)}

---------------------------------------------------------------------------
(* The exactly-one operations. db is [table, view, serial]: the committed   *)
(* rows, the rows the caller's transaction sees, and the key serial.        *)

\* ExactlyOne without the check of more than one document
ExactlyOneAllowsMany(o) ==
    IF o.error # NoError THEN o
    ELSE IF Len(o.documents) = 0
    THEN [o EXCEPT !.error = "EntityNotFoundError", !.documents = <<>>]
    ELSE o

\* ExactlyOne without the check of no document
ExactlyOneAllowsNone(o) ==
    IF o.error # NoError THEN o
    ELSE IF Len(o.documents) > 1
    THEN [o EXCEPT !.error = "MultipleEntitiesFoundError", !.documents = <<>>]
    ELSE o

\* ExactlyOne returning the first of several documents
ExactlyOneReturnsFirst(o) ==
    IF o.error # NoError THEN o
    ELSE IF Len(o.documents) = 0
    THEN [o EXCEPT !.error = "EntityNotFoundError", !.documents = <<>>]
    ELSE [o EXCEPT !.documents = <<o.documents[1]>>]

\* the checks on documents.length inside the transaction callback
ExactlyOne(o) ==
    IF o.error # NoError THEN o
    ELSE IF Len(o.documents) = 0
    THEN [o EXCEPT !.error = "EntityNotFoundError", !.documents = <<>>]
    ELSE IF Len(o.documents) > 1
    THEN [o EXCEPT !.error = "MultipleEntitiesFoundError", !.documents = <<>>]
    ELSE o

\* the outcome of an operation for the database as a whole
Settled(o, tbl, view, log) ==
    [error |-> o.error, documents |-> o.documents, count |-> o.count, table |-> tbl,
     view |-> view, serial |-> o.serial, log |-> log, matched |-> o.matched]

\* knexWrapper.transaction(callback, parentTransaction): with a parent
\* transaction the callback runs in it and nothing is begun or finished here;
\* without one a transaction is begun, the callback runs in it, and it is
\* committed when the callback returns and rolled back when it throws.
\* transactionHandle is the transaction the callback is given, transactionRows
\* the rows it sees, and transaction settles the callback's outcomes.
transactionHandle(parentTransaction) ==
    IF parentTransaction # "none" THEN parentTransaction ELSE "own"

transactionRows(parentTransaction, db) ==
    IF parentTransaction # "none" THEN db.view ELSE db.table

transaction(outcomes, parentTransaction, db) ==
    IF parentTransaction # "none"
    THEN {Settled(o, db.table, o.rows, o.log) : o \in outcomes}
    ELSE {IF o.error = NoError
          THEN Settled(o, o.rows, db.view,
                       <<Event("begin", "own")>> \o o.log \o <<Event("commit", "own")>>)
          ELSE Settled(o, db.table, db.view,
                       <<Event("begin", "own")>> \o o.log \o <<Event("rollback", "own")>>) :
             o \in outcomes}

\* a bulk operation called by the caller itself: its statement runs in the
\* caller's transaction when options.transaction is given, else on its own
Direct(outcomes, options, db) ==
    {IF options.transaction = "caller"
     THEN Settled(o, db.table, o.rows, o.log)
     ELSE Settled(o, o.rows, db.view, o.log) : o \in outcomes}

\* the rows a directly called bulk operation sees
Visible(db, options) == IF options.transaction = "caller" THEN db.view ELSE db.table

\* Object.assign({}, options, { transaction })
WithTransaction(options, t) == [options EXCEPT !.transaction = t]

\* the callback passing the options on without its transaction
InnerDropsTransaction(options) == WithTransaction(options, "none")

\* the options the callback passes on: Object.assign({}, options, { transaction })
Inner(options) == WithTransaction(options, transactionHandle(options.transaction))

createOne(db, values, options) ==
    transaction({ExactlyOne(o) :
                     o \in create(transactionRows(options.transaction, db), db.serial,
                                  <<values>>, Inner(options))},
                options.transaction, db)

findOne(db, query, options) ==
    transaction({ExactlyOne(o) :
                     o \in find(transactionRows(options.transaction, db), db.serial,
                                query, Inner(options))},
                options.transaction, db)

updateOne(db, query, values, options) ==
    transaction({ExactlyOne(o) :
                     o \in update(transactionRows(options.transaction, db), db.serial,
                                  query, values, Inner(options))},
                options.transaction, db)

destroyOne(db, query, options) ==
    transaction({ExactlyOne(o) :
                     o \in destroy(transactionRows(options.transaction, db), db.serial,
                                   query, Inner(options))},
                options.transaction, db)

\* the query { key }
KeyQuery(key) ==
    [isArray |-> FALSE,
     items |-> <<  <<[k |-> <<"key">>, v |-> [tag |-> "scalar", vals |-> <<key>>]]>>  >>]

findByKey(db, key, options) == findOne(db, KeyQuery(key), options)

updateByKey(db, key, values, options) == updateOne(db, KeyQuery(key), values, options)

destroyByKey(db, key, options) == destroyOne(db, KeyQuery(key), options)

\* KeyModel.fieldNames(isKeyExcluded): without an argument the key is included
KeyModelFieldNames(isKeyExcluded) ==
    IF isKeyExcluded THEN SelectSeq(fieldNames, LAMBDA f : f # "key") ELSE fieldNames

\* lodash.pick(object, paths): the properties of object that paths names, in
\* the order of paths
pick(object, paths) ==
    LET present == SelectSeq(paths, LAMBDA f : f \in Keys(object))
    IN  [i \in DOMAIN present |-> [k |-> present[i], v |-> Get(object, present[i])]]

\* the values save passes on: lodash.pick(document, this.fieldNames())
savePayload(document) == pick(document, KeyModelFieldNames(FALSE))

save(db, document, options) ==
    updateByKey(db, Get(document, "key"), savePayload(document), options)

delete(db, document, options) == destroyByKey(db, Get(document, "key"), options)

---------------------------------------------------------------------------
(* The inputs a caller submits. *)

Scalar(v) == [tag |-> "scalar", vals |-> <<v>>]
Array(vs) == [tag |-> "array", vals |-> vs]
Undefined == [tag |-> "undefined", vals |-> <<>>]

\* the arrays over the stored values of f, of at most n elements, in ascending order
Arrays(f, n) ==
    {s \in UNION {[1..m -> Stored(f)] : m \in 0..n} :
         \A i, j \in DOMAIN s : i < j => Rank(f, s[i]) < Rank(f, s[j])}

\* a query item's property names: every field and its negated form
PropertyNames == {<<f>> : f \in Range(fieldNames)} \cup {<<"!", f>> : f \in Range(fieldNames)}

\* the sequences over S of at most n elements whose k are all different
Objects(S, n) ==
    {s \in UNION {[1..m -> S] : m \in 0..n} :
         \A i, j \in DOMAIN s : i # j => s[i].k # s[j].k}

Single(item) == [isArray |-> FALSE, items |-> <<item>>]
List(items) == [isArray |-> TRUE, items |-> items]

TotalEntries(items) == Cardinality({<<i, j>> \in (DOMAIN items) \X (1..MaxEntries) : j <= Len(items[i])})

\* The queries of the compiler's specification: conforming scalars, arrays of
\* at most MaxEntries values (the empty one too) and undefined, in items of at
\* most MaxEntries entries; a list has at most MaxItems items and MaxEntries
\* entries in all
CompilerEntries ==
    {[k |-> k, v |-> v] : k \in {k \in PropertyNames : FieldOf(k) = "key"},
                          v \in {Scalar(x) : x \in Stored("key")}
                                \cup {Array(a) : a \in Arrays("key", MaxEntries)}
                                \cup {Undefined}}
    \cup
    {[k |-> k, v |-> v] : k \in {k \in PropertyNames : FieldOf(k) = "name"},
                          v \in {Scalar(x) : x \in Stored("name")}
                                \cup {Array(a) : a \in Arrays("name", MaxEntries)}
                                \cup {Undefined}}

CompilerItems == Objects(CompilerEntries, MaxEntries)

CompilerQueries ==
    {Single(q) : q \in CompilerItems}
    \cup {List(l) : l \in {l \in UNION {[1..m -> CompilerItems] : m \in 0..MaxItems} :
                              TotalEntries(l) <= MaxEntries}}

\* The queries of the engine's specification: one item of at most one entry,
\* or a list of at most one such item; an entry's value is a scalar
\* (conforming or not), the empty array or undefined
EngineEntries ==
    {[k |-> k, v |-> v] : k \in {k \in PropertyNames : FieldOf(k) = "key"},
                          v \in {Scalar(x) : x \in Submitted("key")}
                                \cup {Array(<<>>), Undefined}}
    \cup
    {[k |-> k, v |-> v] : k \in {k \in PropertyNames : FieldOf(k) = "name"},
                          v \in {Scalar(x) : x \in Submitted("name")}
                                \cup {Array(<<>>), Undefined}}

EngineItems == {<<>>} \cup {<<e>> : e \in EngineEntries}

EngineQueries ==
    {Single(q) : q \in EngineItems} \cup {List(<<>>)} \cup {List(<<q>>) : q \in EngineItems}

\* a property that is no field of the table
Unknown == [k |-> "extra", v |-> String("x")]

\* values objects: the name (conforming or not) or nothing, after an explicit
\* key or none; and objects with a property that is no field
ValuesObjects ==
    {k \o n : k \in {<<>>} \cup {<<[k |-> "key", v |-> x]>> : x \in KeyValues},
              n \in {<<>>} \cup {<<[k |-> "name", v |-> x]>> : x \in Submitted("name")}}
    \cup {<<Unknown>>, <<[k |-> "name", v |-> String("a")], Unknown>>}

\* the values objects of an update: at most one property
UpdateValues == {v \in ValuesObjects : Len(v) <= 1}

\* the documents passed to save and delete: a key, a name or none, and
\* possibly a property that is no field of the table
Documents ==
    {<<[k |-> "key", v |-> x]>> \o n \o e :
        x \in Submitted("key"),
        n \in {<<>>} \cup {<<[k |-> "name", v |-> y]>> : y \in Submitted("name")},
        e \in {<<>>, <<Unknown>>}}

Options(qv, vv, limit, offset, t) ==
    [isQueryValidationDisabled |-> qv, isValuesValidationDisabled |-> vv,
     orderBy |-> <<>>, limit |-> limit, offset |-> offset, transaction |-> t]

\* the options of find: orderBy is a list of [column, direction]
FindOptions(qv, orderBy, limit, offset, t) ==
    [Options(qv, FALSE, limit, offset, t) EXCEPT !.orderBy = orderBy]

OrderByClause(column, direction) == [column |-> column, direction |-> direction]

\* the orderBy options of the paging specification: none, one clause, and two
\* clauses in both sequences
OrderBys ==
    {<<>>, <<OrderByClause("key", "desc")>>, <<OrderByClause("name", "asc")>>,
     <<OrderByClause("name", "asc"), OrderByClause("key", "desc")>>,
     <<OrderByClause("key", "desc"), OrderByClause("name", "asc")>>}

---------------------------------------------------------------------------
(* The state machine: a caller that calls one operation at a time, inside   *)
(* a transaction of its own or outside any.                                 *)

(* Construction. The arguments of new are [given, name] for the table and   *)
(* [given, names] for the fields object: given is FALSE for undefined.       *)

TableArg(given, name) == [given |-> given, name |-> name]
FieldsArg(given, names) == [given |-> given, names |-> names]

\* Joi.object(...).options({ presence }): the keys of the schema and its presence
ObjectSchema(keys, presence) == [keys |-> keys, presence |-> presence]

\* what new yields when the constructor throws: no instance, the error
Throws(message) ==
    [state |-> "failed", error |-> message, table |-> "", fields |-> <<>>,
     queryValidationSchema |-> {},
     createValuesValidationSchema |-> ObjectSchema({}, "none"),
     updateValuesValidationSchema |-> ObjectSchema({}, "none")]

\* the constructor of Model: !this.table, then !this.fields, then the query
\* schema with a key f and a key !f for every field
Model(tableArg, fieldsArg, createSchema, updateSchema) ==
    IF ~tableArg.given \/ tableArg.name = ""
    THEN Throws("No table name was set in the model.")
    ELSE IF ~fieldsArg.given
    THEN Throws("No fields object was set in the model.")
    ELSE [state |-> "constructed", error |-> NoError, table |-> tableArg.name,
          fields |-> fieldsArg.names,
          queryValidationSchema |->
              {<<f>> : f \in Range(fieldsArg.names)}
                  \cup {<<"!", f>> : f \in Range(fieldsArg.names)},
          createValuesValidationSchema |-> createSchema,
          updateValuesValidationSchema |-> updateSchema]

\* the constructor of KeyModel: super(...) with the schemas of the fields
\* other than key (lodash.pickBy of undefined is {}), then !this.fields.key
KeyModel(tableArg, fieldsArg) ==
    LET picked == {f \in Range(fieldsArg.names) : fieldsArg.given /\ f # "key"}
        base == Model(tableArg, fieldsArg, ObjectSchema(picked, "required"),
                      ObjectSchema(picked, "optional"))
    IN  IF base.state = "failed" THEN base
        ELSE IF "key" \notin Range(base.fields)
        THEN Throws("The submitted fields object does not contain a primary key entry.")
        ELSE base

\* a class that extends Model and passes schemas of all its fields
PlainModel(tableArg, fieldsArg) ==
    LET keys == {f \in Range(fieldsArg.names) : fieldsArg.given}
    IN  Model(tableArg, fieldsArg, ObjectSchema(keys, "required"),
              ObjectSchema(keys, "optional"))

\* before any construction
NoInstance ==
    [kind |-> "none",
     args |-> [table |-> TableArg(FALSE, ""), fields |-> FieldsArg(FALSE, <<>>)],
     made |-> [Throws("") EXCEPT !.state = "none"]]

\* the model the operations are called on: a KeyModel of the table's fields
Users ==
    [kind |-> "KeyModel",
     args |-> [table |-> TableArg(TRUE, tableName), fields |-> FieldsArg(TRUE, fieldNames)],
     made |-> KeyModel(TableArg(TRUE, tableName), FieldsArg(TRUE, fieldNames))]

\* no helper function has been applied
NotApplied == [fn |-> "none"]

\* the callers that call destroyOne at the same time
Callers == {"first", "second"}

\* a caller that has not called: pc is the await the call is at, pre the
\* committed rows when it was made, deleted the rows its transaction has
\* deleted and keeps locked until it ends
NoSession ==
    [pc |-> "idle", key |-> Number(0), pre |-> {}, deleted |-> {}, documents |-> <<>>,
     error |-> NoError, log |-> <<>>]

NoSessions == [c \in Callers |-> NoSession]

NoCall ==
    [op |-> "none", document |-> <<>>, query |-> List(<<>>), key |-> Number(0),
     values |-> <<>>,
     options |-> Options(FALSE, FALSE, 0, 0, "none"),
     pre |-> [table |-> {}, view |-> {}],
     error |-> NoError, documents |-> <<>>, count |-> 0, log |-> <<>>, matched |-> -1]

Closed == [open |-> FALSE, view |-> {}, ops |-> 0]

\* a fresh table
Init ==
    /\ table = {}
    /\ nextKey = 1
    /\ trx = Closed
    /\ call = NoCall
    /\ instance = Users
    /\ applied = NotApplied
    /\ sessions = NoSessions

\* the database as the operations see it
Db == [table |-> table, view |-> trx.view, serial |-> nextKey]

\* the transaction a caller passes in options: its own one while it is open
Passed == IF trx.open THEN "caller" ELSE "none"

\* the caller may call: nothing is awaited, and its transaction has room
Idle ==
    /\ instance = Users
    /\ call.op = "none"
    /\ trx.open => trx.ops < MaxTrxOps

\* the operation, called with a document or with none (<<>>), answers with
\* outcome o
Reply(op, document, query, key, values, options, o) ==
    /\ table' = o.table
    /\ nextKey' = o.serial
    /\ trx' = IF trx.open THEN [trx EXCEPT !.view = o.view, !.ops = @ + 1] ELSE trx
    /\ call' = [op |-> op, document |-> document, query |-> query, key |-> key, values |-> values,
                options |-> options, pre |-> [table |-> table, view |-> trx.view],
                error |-> o.error, documents |-> o.documents, count |-> o.count,
                log |-> o.log, matched |-> o.matched]
    /\ UNCHANGED <<instance, applied, sessions>>

Answer(op, query, key, values, options, o) == Reply(op, <<>>, query, key, values, options, o)

\* the serial stays within 1..MaxKey
SerialFor(values) ==
    nextKey + Cardinality({i \in DOMAIN values : "key" \notin Keys(values[i])}) <= MaxKey + 1

Limits == 0..MaxLimit

Create ==
    /\ Idle
    /\ \E values \in UNION {[1..n -> ValuesObjects] : n \in 1..MaxBatch}, vv \in BOOLEAN :
          LET options == Options(FALSE, vv, 0, 0, Passed)
          IN  /\ SerialFor(values)
              /\ \E o \in Direct(create(Visible(Db, options), nextKey, values, options),
                                 options, Db) :
                     Answer("create", List(<<>>), Number(0), values, options, o)

CreateOne ==
    /\ Idle
    /\ \E values \in ValuesObjects, vv \in BOOLEAN :
          LET options == Options(FALSE, vv, 0, 0, Passed)
          IN  /\ SerialFor(<<values>>)
              /\ \E o \in createOne(Db, values, options) :
                     Answer("createOne", List(<<>>), Number(0), <<values>>, options, o)

Find(Q, QV, OB, L, O) ==
    /\ Idle
    /\ \E query \in Q, qv \in QV, orderBy \in OB, limit \in L, offset \in O :
          LET options == FindOptions(qv, orderBy, limit, offset, Passed)
          IN  \E o \in Direct(find(Visible(Db, options), nextKey, query, options), options, Db) :
                  Answer("find", query, Number(0), <<>>, options, o)

FindOne ==
    /\ Idle
    /\ \E query \in EngineQueries, qv \in BOOLEAN, limit \in Limits, offset \in Limits :
          LET options == Options(qv, FALSE, limit, offset, Passed)
          IN  \E o \in findOne(Db, query, options) :
                  Answer("findOne", query, Number(0), <<>>, options, o)

FindByKey ==
    /\ Idle
    /\ \E key \in Submitted("key"), qv \in BOOLEAN, limit \in Limits, offset \in Limits :
          LET options == Options(qv, FALSE, limit, offset, Passed)
          IN  \E o \in findByKey(Db, key, options) :
                  Answer("findByKey", KeyQuery(key), key, <<>>, options, o)

Count(Q, QV) ==
    /\ Idle
    /\ \E query \in Q, qv \in QV :
          LET options == Options(qv, FALSE, 0, 0, Passed)
          IN  \E o \in Direct(count(Visible(Db, options), nextKey, query, options), options, Db) :
                  Answer("count", query, Number(0), <<>>, options, o)

Update(Q, V, QV) ==
    /\ Idle
    /\ \E query \in Q, values \in V, qv \in QV, vv \in QV :
          LET options == Options(qv, vv, 0, 0, Passed)
          IN  \E o \in Direct(update(Visible(Db, options), nextKey, query, values, options),
                              options, Db) :
                  Answer("update", query, Number(0), <<values>>, options, o)

UpdateOne ==
    /\ Idle
    /\ \E query \in EngineQueries, values \in UpdateValues, qv \in BOOLEAN, vv \in BOOLEAN :
          LET options == Options(qv, vv, 0, 0, Passed)
          IN  \E o \in updateOne(Db, query, values, options) :
                  Answer("updateOne", query, Number(0), <<values>>, options, o)

UpdateByKey ==
    /\ Idle
    /\ \E key \in Submitted("key"), values \in UpdateValues, qv \in BOOLEAN, vv \in BOOLEAN :
          LET options == Options(qv, vv, 0, 0, Passed)
          IN  \E o \in updateByKey(Db, key, values, options) :
                  Answer("updateByKey", KeyQuery(key), key, <<values>>, options, o)

Destroy(Q, QV) ==
    /\ Idle
    /\ \E query \in Q, qv \in QV :
          LET options == Options(qv, FALSE, 0, 0, Passed)
          IN  \E o \in Direct(destroy(Visible(Db, options), nextKey, query, options),
                              options, Db) :
                  Answer("destroy", query, Number(0), <<>>, options, o)

DestroyOne ==
    /\ Idle
    /\ \E query \in EngineQueries, qv \in BOOLEAN :
          LET options == Options(qv, FALSE, 0, 0, Passed)
          IN  \E o \in destroyOne(Db, query, options) :
                  Answer("destroyOne", query, Number(0), <<>>, options, o)

DestroyByKey ==
    /\ Idle
    /\ \E key \in Submitted("key"), qv \in BOOLEAN :
          LET options == Options(qv, FALSE, 0, 0, Passed)
          IN  \E o \in destroyByKey(Db, key, options) :
                  Answer("destroyByKey", KeyQuery(key), key, <<>>, options, o)

Save ==
    /\ Idle
    /\ \E document \in Documents, qv \in BOOLEAN, vv \in BOOLEAN :
          LET options == Options(qv, vv, 0, 0, Passed)
          IN  \E o \in save(Db, document, options) :
                  Reply("save", document, KeyQuery(Get(document, "key")),
                        Get(document, "key"), <<savePayload(document)>>, options, o)

Delete ==
    /\ Idle
    /\ \E document \in Documents, qv \in BOOLEAN :
          LET options == Options(qv, FALSE, 0, 0, Passed)
          IN  \E o \in delete(Db, document, options) :
                  Reply("delete", document, KeyQuery(Get(document, "key")),
                        Get(document, "key"), <<>>, options, o)

\* the caller takes the answer
Return ==
    /\ call.op # "none"
    /\ call' = NoCall
    /\ UNCHANGED <<table, nextKey, trx, instance, applied, sessions>>

\* the caller begins, commits and rolls back a transaction of its own
Begin ==
    /\ call.op = "none" /\ ~trx.open
    /\ trx' = [open |-> TRUE, view |-> table, ops |-> 0]
    /\ UNCHANGED <<table, nextKey, call, instance, applied, sessions>>

Commit ==
    /\ call.op = "none" /\ trx.open
    /\ table' = trx.view
    /\ trx' = Closed
    /\ UNCHANGED <<nextKey, call, instance, applied, sessions>>

Rollback ==
    /\ call.op = "none" /\ trx.open
    /\ trx' = Closed
    /\ UNCHANGED <<table, nextKey, call, instance, applied, sessions>>

Next ==
    \/ Create \/ CreateOne
    \/ Find(EngineQueries, BOOLEAN, {<<>>}, Limits \cup {Absent}, Limits) \/ FindOne \/ FindByKey
    \/ Count(EngineQueries, BOOLEAN)
    \/ Update(EngineQueries, UpdateValues, BOOLEAN) \/ UpdateOne \/ UpdateByKey
    \/ Destroy(EngineQueries, BOOLEAN) \/ DestroyOne \/ DestroyByKey
    \/ Save \/ Delete
    \/ Return \/ Begin \/ Commit \/ Rollback

Spec == Init /\ [][Next]_vars

(* The compiler's specification: the bulk operations with default options   *)
(* on any table, over the compiler's queries.                               *)

\* the update values that set the name to a stored value
RenameValues == {<<[k |-> "name", v |-> x]>> : x \in NameValues}

InitCompiler ==
    /\ table \in Tables
    /\ nextKey = MaxKey + 1
    /\ trx = Closed
    /\ call = NoCall
    /\ instance = Users
    /\ applied = NotApplied
    /\ sessions = NoSessions

NextCompiler ==
    \/ Find(CompilerQueries, {FALSE}, {<<>>}, {Absent}, {0})
    \/ Count(CompilerQueries, {FALSE})
    \/ Update(CompilerQueries, RenameValues, {FALSE})
    \/ Destroy(CompilerQueries, {FALSE})
    \/ Return

SpecCompiler == InitCompiler /\ [][NextCompiler]_vars

(* The constructor's specification: a model is constructed from any          *)
(* arguments; the model of the table is then used.                           *)

FieldNamesGiven == {"key", "name", "label"}

TableArgs == {TableArg(FALSE, ""), TableArg(TRUE, ""), TableArg(TRUE, tableName),
              TableArg(TRUE, "items")}

\* undefined, or an object of at most MaxFields fields in any order
FieldsArgs ==
    {FieldsArg(FALSE, <<>>)}
    \cup {FieldsArg(TRUE, names) :
             names \in {n \in UNION {[1..m -> FieldNamesGiven] : m \in 0..MaxFields} :
                            \A i, j \in DOMAIN n : i # j => n[i] # n[j]}}

InitConstructor ==
    /\ table = {}
    /\ nextKey = 1
    /\ trx = Closed
    /\ call = NoCall
    /\ instance = NoInstance
    /\ applied = NotApplied
    /\ sessions = NoSessions

ConstructModel ==
    /\ instance.kind = "none"
    /\ \E tableArg \in TableArgs, fieldsArg \in FieldsArgs :
          instance' = [kind |-> "Model",
                       args |-> [table |-> tableArg, fields |-> fieldsArg],
                       made |-> PlainModel(tableArg, fieldsArg)]
    /\ UNCHANGED <<table, nextKey, trx, call, applied, sessions>>

ConstructKeyModel ==
    /\ instance.kind = "none"
    /\ \E tableArg \in TableArgs, fieldsArg \in FieldsArgs :
          instance' = [kind |-> "KeyModel",
                       args |-> [table |-> tableArg, fields |-> fieldsArg],
                       made |-> KeyModel(tableArg, fieldsArg)]
    /\ UNCHANGED <<table, nextKey, trx, call, applied, sessions>>

NextConstructor ==
    \/ ConstructModel
    \/ ConstructKeyModel
    \/ Count(EngineQueries, BOOLEAN)
    \/ Return

SpecConstructor == InitConstructor /\ [][NextConstructor]_vars

(* The paging specification: find on any table, with orderBy, limit and      *)
(* offset, every option passed or left out.                                  *)

\* the queries of the paging specification: every row, one key, one name
PagingQueries ==
    {Single(<<>>)}
    \cup {Single(<<[k |-> <<"key">>, v |-> Scalar(x)]>>) : x \in KeyValues}
    \cup {Single(<<[k |-> <<"name">>, v |-> Scalar(x)]>>) : x \in NameValues}

NextPaging ==
    \/ Find(PagingQueries, {FALSE}, OrderBys, 0..(MaxLimit + 1) \cup {Absent},
            0..MaxLimit \cup {Absent})
    \/ Return

SpecPaging == InitCompiler /\ [][NextPaging]_vars

---------------------------------------------------------------------------
(* Concurrent calls: two callers call destroyOne, each without a            *)
(* transaction, so each call runs in a transaction of its own.  The calls   *)
(* interleave at their awaits: the begin, the delete statement, and the     *)
(* commit or rollback.  The backend runs the transactions at its default    *)
(* isolation level (read committed): a delete sees the committed rows, and  *)
(* waits for a transaction that has deleted one of the rows it matches.     *)

\* a delete that waits for no one
BlockedNever(c, hit) == FALSE

\* the delete of session c must wait: another open transaction has deleted one
\* of the rows the statement matches
Blocked(c, hit) == \E d \in Callers \ {c} : sessions[d].deleted \cap hit # {}

\* destroyOne({ key }) is called: knexWrapper.transaction begins a transaction
DestroyOneCalled(c) ==
    /\ sessions[c].pc = "idle"
    /\ \E key \in KeyValues :
          sessions' = [sessions EXCEPT ![c] =
                          [NoSession EXCEPT !.pc = "statement", !.key = key, !.pre = table,
                                            !.log = <<Event("begin", "own")>>]]
    /\ UNCHANGED <<table, nextKey, trx, call, instance, applied>>

\* the callback: await this.destroy(query, { transaction }), then the checks
\* on documents.length
DestroyOneStatement(c) ==
    /\ sessions[c].pc = "statement"
    /\ \E o \in destroy(table, nextKey, KeyQuery(sessions[c].key),
                         Inner(Options(FALSE, FALSE, 0, 0, "none"))) :
          LET hit == table \ o.rows
              checked == ExactlyOne(o)
          IN  /\ ~Blocked(c, hit)
              /\ sessions' = [sessions EXCEPT ![c] =
                                  [@ EXCEPT !.pc = IF checked.error = NoError THEN "commit"
                                                   ELSE "rollback",
                                            !.deleted = hit,
                                            !.documents = checked.documents,
                                            !.error = checked.error,
                                            !.log = @ \o o.log]]
    /\ UNCHANGED <<table, nextKey, trx, call, instance, applied>>

\* the callback returned: the transaction is committed and the entity returned
DestroyOneCommit(c) ==
    /\ sessions[c].pc = "commit"
    /\ table' = table \ sessions[c].deleted
    /\ sessions' = [sessions EXCEPT ![c] =
                        [@ EXCEPT !.pc = "done", !.deleted = {},
                                  !.log = Append(@, Event("commit", "own"))]]
    /\ UNCHANGED <<nextKey, trx, call, instance, applied>>

\* the callback threw: the transaction is rolled back and the error raised
DestroyOneRollback(c) ==
    /\ sessions[c].pc = "rollback"
    /\ sessions' = [sessions EXCEPT ![c] =
                        [@ EXCEPT !.pc = "done", !.deleted = {},
                                  !.log = Append(@, Event("rollback", "own"))]]
    /\ UNCHANGED <<table, nextKey, trx, call, instance, applied>>

NextConcurrent ==
    \E c \in Callers :
        \/ DestroyOneCalled(c)
        \/ DestroyOneStatement(c)
        \/ DestroyOneCommit(c)
        \/ DestroyOneRollback(c)

SpecConcurrent == InitCompiler /\ [][NextConcurrent]_vars

---------------------------------------------------------------------------
(* Validation errors: the translations of a Joi validation error into a map *)
(* from the path of a violation to what was reported for it.  A value that  *)
(* was validated is an object [object |-> its properties], a string         *)
(* [s |-> ...] or null; a JavaScript array is [array |-> its elements].     *)

ObjectValue(props) == [object |-> props]
Null == [null |-> TRUE]
ArrayOf(elements) == [array |-> elements]

\* value instanceof Object; typeof value === 'object'; lodash.isArray(value)
instanceofObject(value) == DOMAIN value = {"object"}
typeofObject(value) == DOMAIN value = {"object"} \/ DOMAIN value = {"null"}
isArray(value) == DOMAIN value = {"array"}

\* path in value, for a value that is an object; lodash.get(value, path)
In(path, value) == \E i \in DOMAIN value.object : value.object[i].k = path
get(value, path) == Get(value.object, path)

\* an element of error.details
JoiErrorItem(path, type) == [path |-> path, type |-> type, message |-> <<path, type>>]

\* a Joi validation error (and the validation result that holds it): the
\* value validated (_object) and the violations in the order reported
JoiError(value, details) == [isJoi |-> TRUE, object |-> value, details |-> details]

\* an object without properties
EmptyMap == [path \in {} |-> Null]

\* parseValidationError: details.reduce(..., {})
RECURSIVE parseValidationErrorReduce(_, _, _)
parseValidationErrorReduce(map, details, value) ==
    IF details = <<>> THEN map
    ELSE LET joiValidationErrorItem == Head(details)
             path == IF instanceofObject(value) /\ In(joiValidationErrorItem.path, value)
                     THEN joiValidationErrorItem.path
                     ELSE ""
             errorItem == [value |-> IF path # "" THEN get(value, path) ELSE value,
                           type |-> joiValidationErrorItem.type,
                           message |-> joiValidationErrorItem.message]
             started == IF path \in DOMAIN map THEN map ELSE (path :> ArrayOf(<<>>)) @@ map
         IN  parseValidationErrorReduce(
                 [started EXCEPT ![path] = ArrayOf(Append(@.array, errorItem))],
                 Tail(details), value)

\* what a translation yields: the error it throws, or the map it builds
Built(map) == [threw |-> "none", map |-> map]
Threw(name) == [threw |-> name, map |-> EmptyMap]

parseValidationError(joiValidationError) ==
    Built(parseValidationErrorReduce(EmptyMap, joiValidationError.details,
                                     joiValidationError.object))

\* the constructor of ValidationError in error/validation.ts: this.detail is
\* details.reduce((map, item) => { map[item.path] = {...}; return map }, {})
RECURSIVE ValidationErrorDetailReduce(_, _, _)
ValidationErrorDetailReduce(map, details, input) ==
    IF details = <<>> THEN map
    ELSE LET joiErrorItem == Head(details)
             entry == [input |-> IF typeofObject(input) /\ In(joiErrorItem.path, input)
                                 THEN get(input, joiErrorItem.path)
                                 ELSE input,
                       type |-> joiErrorItem.type,
                       message |-> joiErrorItem.message]
         IN  ValidationErrorDetailReduce((joiErrorItem.path :> entry) @@ map,
                                         Tail(details), input)

\* typeof null is 'object', and the operator in throws a TypeError on null
ValidationErrorDetail(joiValidationResult) ==
    IF joiValidationResult.details # <<>> /\ joiValidationResult.object = Null
    THEN Threw("TypeError")
    ELSE Built(ValidationErrorDetailReduce(EmptyMap, joiValidationResult.details,
                                           joiValidationResult.object))

\* the constructor of the ValidationError that holds details, for a Joi error
RECURSIVE ValidationErrorDetailsReduce(_, _, _)
ValidationErrorDetailsReduce(map, details, value) ==
    IF details = <<>> THEN map
    ELSE LET joiValidationErrorItem == Head(details)
             path == joiValidationErrorItem.path
             errorItem == [value |-> IF instanceofObject(value) /\ In(path, value)
                                     THEN get(value, path)
                                     ELSE value,
                           type |-> joiValidationErrorItem.type,
                           message |-> joiValidationErrorItem.message]
             started == IF path \in DOMAIN map THEN map ELSE (path :> ArrayOf(<<>>)) @@ map
         IN  ValidationErrorDetailsReduce(
                 [started EXCEPT ![path] = ArrayOf(Append(@.array, errorItem))],
                 Tail(details), value)

\* the error item made of one custom message
CustomErrorItem(errorObjectKey, message) ==
    [value |-> String("[VALUE OF: " \o errorObjectKey \o "]"),
     type |-> "custom_validation_error",
     message |-> message]

\* an object of custom messages: its properties, each an array of messages or
\* one message
CustomErrorObject(props) == [isJoi |-> FALSE, object |-> ObjectValue(props), details |-> <<>>]

\* the constructor: the Joi branch, or lodash.mapValues over the custom object
ValidationErrorDetails(errorObject) ==
    IF errorObject.isJoi
    THEN Built(ValidationErrorDetailsReduce(EmptyMap, errorObject.details, errorObject.object))
    ELSE Built([errorObjectKey \in Keys(errorObject.object.object) |->
                   LET errorObjectItem == get(errorObject.object, errorObjectKey)
                   IN  IF isArray(errorObjectItem)
                       THEN ArrayOf([i \in DOMAIN errorObjectItem.array |->
                                        CustomErrorItem(errorObjectKey,
                                                        errorObjectItem.array[i])])
                       ELSE CustomErrorItem(errorObjectKey, errorObjectItem)])

(* The inputs of the translations. *)

\* the values validated: objects with and without the field name and a
\* property that is no field, a string, and null
ValidatedValues ==
    {ObjectValue(<<>>),
     ObjectValue(<<[k |-> "name", v |-> String("a")]>>),
     ObjectValue(<<[k |-> "name", v |-> String(LongLabel)]>>),
     ObjectValue(<<[k |-> "name", v |-> String("a")], Unknown>>),
     String("a"), Null}

\* the violations Joi may report for a value: a field that is missing, a
\* rule of a field's schema that its value breaks, a property that is no
\* field, a dependency of the object that is not met, and for a value that is
\* no object its type or a rule it breaks
Reportable(value) ==
    IF instanceofObject(value)
    THEN {JoiErrorItem(f, "any.required") :
             f \in {f \in Range(nonKeyFieldNames) : ~In(f, value)}}
         \cup {JoiErrorItem(f, t) :
                  f \in {f \in Range(nonKeyFieldNames) : In(f, value)},
                  t \in {"string.max", "string.email"}}
         \cup {JoiErrorItem(k, "object.allowUnknown") :
                  k \in Keys(value.object) \ Range(fieldNames)}
         \cup {JoiErrorItem("", "object.missing")}
    ELSE IF value = Null THEN {JoiErrorItem("", "object.base")}
    ELSE {JoiErrorItem("", "string.max"), JoiErrorItem("", "string.email")}

\* the sequences of at least one and at most n different elements of S
Reports(S, n) ==
    {d \in UNION {[1..m -> S] : m \in 1..n} : \A i, j \in DOMAIN d : i # j => d[i] # d[j]}

JoiErrors ==
    UNION {{JoiError(value, details) : details \in Reports(Reportable(value), MaxViolations)} :
              value \in ValidatedValues}

\* the custom messages of one key: one message, or an array of messages
CustomMessages ==
    {String("m1")}
    \cup {ArrayOf(m) : m \in UNION {[1..n -> {String("m1"), String("m2")}] :
                                      n \in 0..MaxViolations}}

CustomErrorObjects ==
    {CustomErrorObject(props) :
        props \in Objects({[k |-> k, v |-> v] : k \in {"name", "password"},
                                               v \in CustomMessages}, 2)}

(* The translations' specification. *)

\* no result is held
NoneApplied == applied.fn = "none"

Apply(fn, input, output) ==
    /\ applied' = [fn |-> fn, input |-> input, output |-> output]
    /\ UNCHANGED <<table, nextKey, trx, call, instance, sessions>>

ParseValidationError ==
    /\ NoneApplied
    /\ \E joiValidationError \in JoiErrors :
          Apply("parseValidationError", joiValidationError,
                parseValidationError(joiValidationError))

NewValidationErrorWithDetail ==
    /\ NoneApplied
    /\ \E joiValidationResult \in JoiErrors :
          Apply("ValidationError.detail", joiValidationResult,
                ValidationErrorDetail(joiValidationResult))

NewValidationErrorWithDetails ==
    /\ NoneApplied
    /\ \E errorObject \in JoiErrors \cup CustomErrorObjects :
          Apply("ValidationError.details", errorObject, ValidationErrorDetails(errorObject))

\* the result is dropped
Forget ==
    /\ applied.fn # "none"
    /\ applied' = NotApplied
    /\ UNCHANGED <<table, nextKey, trx, call, instance, sessions>>

NextValidationError ==
    \/ ParseValidationError
    \/ NewValidationErrorWithDetail
    \/ NewValidationErrorWithDetails
    \/ Forget

SpecValidationError == Init /\ [][NextValidationError]_vars

---------------------------------------------------------------------------
(* The request helper getIpAddress.  A string is [text |-> its pieces], a   *)
(* piece being an address or the separator ", "; undefined is a value of    *)
(* its own, and a header may be an array of strings.                        *)

Text(pieces) == [text |-> pieces]
undefinedValue == [undefined |-> TRUE]

isText(value) == DOMAIN value = {"text"}

\* the truthiness of a string or undefined: '' and undefined are falsy
truthy(value) == isText(value) /\ value.text # <<>>

\* the first character of a piece
charAt0(piece) ==
    CASE piece = "10.0.0.1" -> "1"
      [] piece = "10.0.0.2" -> "1"
      [] piece = "unknown" -> "u"
      [] OTHER -> ","

\* value[0]: the first element of an array, the first character of a string,
\* undefined when there is none; on undefined it throws a TypeError
index0(value) ==
    IF isArray(value)
    THEN [threw |-> "none",
          value |-> IF value.array = <<>> THEN undefinedValue ELSE value.array[1]]
    ELSE IF isText(value)
    THEN [threw |-> "none",
          value |-> IF value.text = <<>> THEN undefinedValue
                    ELSE Text(<<charAt0(value.text[1])>>)]
    ELSE [threw |-> "TypeError", value |-> undefinedValue]

\* a || b
or(a, b) == IF truthy(a) THEN a ELSE b

\* a request: req.ip, req.headers['x-forwarded-for'], and the remote
\* addresses of req.connection and req.socket
Request(ip, forwarded, connection, socket) ==
    [ip |-> ip, forwarded |-> forwarded, connection |-> connection, socket |-> socket]

\* getIpAddress: || binds tighter than ?:, so the condition of the
\* conditional is (req.ip || isArray(header)) and its else branch is
\* (header || connection.remoteAddress || socket.remoteAddress)
getIpAddress(req) ==
    LET picked == IF truthy(req.ip) \/ isArray(req.forwarded)
                  THEN index0(req.forwarded)
                  ELSE [threw |-> "none",
                        value |-> or(or(req.forwarded, req.connection), req.socket)]
        ipAddress == picked.value
    IN  IF picked.threw # "none" THEN [threw |-> picked.threw, value |-> Null]
        ELSE IF ~truthy(ipAddress) \/ ipAddress = Text(<<"unknown">>)
        THEN [threw |-> "none", value |-> Null]
        ELSE [threw |-> "none", value |-> Text(split(ipAddress.text, ", ")[1])]

(* The requests. *)

Addresses == {"10.0.0.1", "10.0.0.2"}

\* one address, or two of them joined by ", "
AddressLists ==
    {Text(<<a>>) : a \in Addresses} \cup {Text(<<"10.0.0.1", ", ", "10.0.0.2">>)}

Requests ==
    {Request(ip, forwarded, connection, socket) :
        ip \in {undefinedValue, Text(<<"unknown">>)} \cup AddressLists,
        forwarded \in {undefinedValue, Text(<<"unknown">>), ArrayOf(<<>>),
                       ArrayOf(<<Text(<<"10.0.0.2">>), Text(<<"10.0.0.1">>)>>)}
                          \cup AddressLists,
        connection \in {undefinedValue, Text(<<"10.0.0.1">>), Text(<<"unknown">>)},
        socket \in {undefinedValue, Text(<<"10.0.0.2">>)}}

GetIpAddress ==
    /\ NoneApplied
    /\ \E req \in Requests : Apply("getIpAddress", req, getIpAddress(req))

NextRequest == GetIpAddress \/ Forget

SpecRequest == Init /\ [][NextRequest]_vars

---------------------------------------------------------------------------
(* What the documentation says a query means, stated on the rows alone.     *)

\* the field an entry filters on, and whether the entry is the negated form
EntryField(e) == e.k[Len(e.k)]
EntryNegated(e) == Len(e.k) = 2

EntryHolds(row, e) ==
    LET x == row[EntryField(e)]
    IN  IF e.v.tag = "scalar"
        THEN IF EntryNegated(e) THEN x # e.v.vals[1] ELSE x = e.v.vals[1]
        ELSE IF EntryNegated(e) THEN x \notin Range(e.v.vals) ELSE x \in Range(e.v.vals)

\* an item is the conjunction of its entries, a list the disjunction of its items
ItemHolds(row, item) == \A i \in DOMAIN item : EntryHolds(row, item[i])

QueryHolds(row, query) ==
    IF query.isArray
    THEN \E i \in DOMAIN query.items : ItemHolds(row, query.items[i])
    ELSE ItemHolds(row, query.items[1])

\* a query with an empty array or an undefined value as a filter
BadFilter(query) ==
    \E i \in DOMAIN query.items : \E j \in DOMAIN query.items[i] :
        LET v == query.items[i][j].v
        IN  v.tag = "undefined" \/ (v.tag = "array" /\ Len(v.vals) = 0)

\* an item with a field both in its plain and in its negated form
BothForms(item) ==
    \E f \in Range(fieldNames) : Present(item, <<f>>) /\ Present(item, <<"!", f>>)

ProgrammerErrors == {"An empty array has been passed.", "An undefined value has been passed."}

CreateOps == {"create", "createOne"}
UpdateOps == {"update", "updateOne", "updateByKey"}
BulkQueryOps == {"find", "count", "update", "destroy"}
OneOps == {"createOne", "findOne", "findByKey", "updateOne", "updateByKey",
           "destroyOne", "destroyByKey"}
QueryOps == BulkQueryOps \cup (OneOps \ {"createOne"})

Statements == {"insert", "select", "count", "update", "delete"}

NoStatement(log) == \A i \in DOMAIN log : log[i].ev \notin Statements

\* the events of an operation's own transaction around one statement, or none
OwnLog(kind, end) == <<Event("begin", "own"), Event(kind, "own"), Event(end, "own")>>
OwnEmpty == <<Event("begin", "own"), Event("rollback", "own")>>

\* the events the operation called may leave when it sends no statement
NoStatementLog ==
    IF call.op \in OneOps /\ call.options.transaction = "none" THEN OwnEmpty ELSE <<>>

\* the rows the operation called saw, and the rows the caller sees after it
SeenBefore == IF call.options.transaction = "caller" THEN call.pre.view ELSE call.pre.table
SeenAfter == IF call.options.transaction = "caller" THEN trx.view ELSE table

\* the call's input fails a schema whose validation is enabled
FailsValidation ==
    \/ /\ call.op \in CreateOps
       /\ ~call.options.isValuesValidationDisabled
       /\ \E i \in DOMAIN call.values : ~createValuesValidationSchema(call.values[i])
    \/ /\ call.op \in UpdateOps
       /\ ~call.options.isValuesValidationDisabled
       /\ ~updateValuesValidationSchema(call.values[1])
    \/ /\ call.op \in QueryOps
       /\ ~call.options.isQueryValidationDisabled
       /\ ~queryValidationSchema(call.query)

---------------------------------------------------------------------------
(* The properties checked. *)

\* C1: with query validation enabled, a query item that has a field both as f
\* and as !f is rejected with a ValidationError.
C1_BothFormsRejected ==
    (/\ call.op \in QueryOps
     /\ ~call.options.isQueryValidationDisabled
     /\ \E i \in DOMAIN call.query.items : BothForms(call.query.items[i]))
    => call.error = "ValidationError"

C5_NothingBegun == FailsValidation => call.error = "ValidationError" /\ call.log = <<>>

\* C5: an input that fails its enabled validation raises a ValidationError
\* before any statement is sent and leaves the rows as they were. An
\* exactly-one operation called without a transaction has begun its own one by
\* then and rolls it back; nothing else reaches the backend.
C5_ValidationRaises ==
    FailsValidation
    => /\ call.error = "ValidationError"
       /\ call.documents = <<>>
       /\ NoStatement(call.log)
       /\ call.log = NoStatementLog
       /\ table = call.pre.table
       /\ trx.view = call.pre.view

C5_Witness ==
    /\ call.op = "create"
    /\ Len(call.values) = 2
    /\ createValuesValidationSchema(call.values[1])
    /\ FailsValidation
    /\ call.error = "ValidationError"
    /\ call.log = <<>>

\* C6: a bulk operation given the empty list as its query matches no row: find
\* returns nothing, count returns 0, update and destroy affect no row.
C6_EmptyListMatchesNothing ==
    (call.op \in BulkQueryOps /\ call.query = List(<<>>) /\ call.error = NoError)
    => call.documents = <<>> /\ call.count = 0 /\ table = call.pre.table

\* C7: find given a list of items returns the rows that satisfy at least one
\* of the items, an item without entries being satisfied by every row.
C7_ListIsDisjunction ==
    (call.op = "find" /\ call.query.isArray /\ call.query.items # <<>>
        /\ call.error = NoError)
    => Range(call.documents) = {r \in call.pre.table : QueryHolds(r, call.query)}

\* the where statement an entry stands for
ExpectedType(e) ==
    IF e.v.tag = "scalar"
    THEN IF EntryNegated(e) THEN "whereNot" ELSE "where"
    ELSE IF EntryNegated(e) THEN "whereNotIn" ELSE "whereIn"

\* the entry of the other form on the same field and value
Flipped(e) ==
    [e EXCEPT !.k = IF EntryNegated(e) THEN <<EntryField(e)>> ELSE <<"!", EntryField(e)>>]

\* C8: find given a single item compiles its entries, in their order, to
\* where (f: scalar), whereIn (f: array), whereNot (!f: scalar) and whereNotIn
\* (!f: array) on the field f, returns the rows that satisfy every entry, and
\* find({f: v}) and find({!f: v}) share no row.
C8_SingleItemIsConjunction ==
    (call.op = "find" /\ ~call.query.isArray /\ ~BadFilter(call.query))
    => LET item == call.query.items[1]
           compiled == prepareQueryItemParamters(item)
           hit == {r \in call.pre.table : ItemHolds(r, item)}
       IN  /\ call.error = NoError
           /\ Range(call.documents) = hit
           /\ Len(call.documents) = Cardinality(hit)
           /\ compiled.error = NoError
           /\ Len(compiled.wheres) = Len(item)
           /\ \A i \in DOMAIN item :
                 /\ compiled.wheres[i].type = ExpectedType(item[i])
                 /\ compiled.wheres[i].column = <<EntryField(item[i])>>
                 /\ compiled.wheres[i].vals = item[i].v.vals
           /\ (Len(item) = 1 /\ item[1].v.tag = "scalar")
              => \A o \in find(call.pre.table, nextKey, Single(<<Flipped(item[1])>>),
                               call.options) :
                     /\ o.error = NoError
                     /\ Range(o.documents) \cap Range(call.documents) = {}
                     /\ Range(o.documents) \cup Range(call.documents) = call.pre.table

C8_Witness ==
    /\ call.op = "find"
    /\ ~call.query.isArray
    /\ Len(call.query.items[1]) = 2
    /\ EntryNegated(call.query.items[1][1])
    /\ call.query.items[1][2].v.tag = "array"
    /\ Cardinality(call.pre.table) = 2
    /\ Len(call.documents) = 1

\* C9: findOne and findByKey given a single item return the entity when
\* exactly one row satisfies the query, raise EntityNotFoundError when none
\* does and MultipleEntitiesFoundError when several do, whatever limit and
\* offset are passed.
C9_ExactlyOneOrError ==
    (/\ call.op \in {"findOne", "findByKey"}
     /\ ~call.query.isArray
     /\ ~BadFilter(call.query)
     /\ call.options.isQueryValidationDisabled \/ queryValidationSchema(call.query))
    => LET hit == {r \in SeenBefore : ItemHolds(r, call.query.items[1])}
       IN  /\ Cardinality(hit) = 1
              => call.error = NoError /\ Range(call.documents) = hit
           /\ Cardinality(hit) = 0 => call.error = "EntityNotFoundError"
           /\ Cardinality(hit) > 1 => call.error = "MultipleEntitiesFoundError"

\* C10: create and createOne with validation enabled return, for each of the
\* values in their order, the values plus a key, and find on the returned key
\* then returns exactly this entity.
C10_CreateThenFind ==
    (call.op \in CreateOps /\ ~call.options.isValuesValidationDisabled
        /\ call.error = NoError)
    => /\ Len(call.documents) = Len(call.values)
       /\ \A i \in DOMAIN call.documents :
             LET d == call.documents[i]
             IN  /\ DOMAIN d = Range(fieldNames)
                 /\ \A f \in Keys(call.values[i]) : d[f] = Get(call.values[i], f)
                 /\ d.key \in KeyValues
                 /\ \A o \in find(SeenAfter, nextKey, KeyQuery(d.key),
                                  Options(FALSE, FALSE, 0, 0, call.options.transaction)) :
                        o.error = NoError /\ o.documents = <<d>>

C10_Witness ==
    /\ call.op = "create"
    /\ ~call.options.isValuesValidationDisabled
    /\ call.error = NoError
    /\ Len(call.documents) = 2
    /\ call.documents[1].name # call.documents[2].name

\* C11: save passes to updateByKey the document's key as the only field of
\* the query and exactly the document's non-key fields as the update values,
\* never the key; delete passes the document's key to destroyByKey.
C11_SaveSendsNonKeyFields ==
    /\ call.op \in {"save", "delete"}
       => /\ call.key = Get(call.document, "key")
          /\ call.query = Single(<<[k |-> <<"key">>, v |-> Scalar(call.key)]>>)
    /\ call.op = "save"
       => /\ "key" \notin Keys(call.values[1])
          /\ Keys(call.values[1]) = Keys(call.document) \cap Range(nonKeyFieldNames)
          /\ \A f \in Keys(call.values[1]) :
                Get(call.values[1], f) = Get(call.document, f)

\* C12: save, with default options, of an entity whose key is in the table
\* and whose non-key fields conform succeeds, and findByKey on its key then
\* returns an entity with the same non-key fields.
C12_SaveThenFindByKey ==
    (/\ call.op = "save"
     /\ ~call.options.isQueryValidationDisabled
     /\ ~call.options.isValuesValidationDisabled
     /\ Keys(call.document) = Range(fieldNames)
     /\ \A f \in Keys(call.document) : Conforms(f, Get(call.document, f))
     /\ \E r \in SeenBefore : r.key = call.key)
    => /\ call.error = NoError
       /\ \A o \in findByKey(Db, call.key,
                             Options(FALSE, FALSE, 0, 0, call.options.transaction)) :
             /\ o.error = NoError
             /\ \A f \in Range(nonKeyFieldNames) :
                    o.documents[1][f] = Get(call.document, f)

DestroyOneOps == {"destroyOne", "destroyByKey", "delete"}

\* the call's query is { key: k } for some value k
QueryIsKey ==
    /\ ~call.query.isArray
    /\ Len(call.query.items[1]) = 1
    /\ call.query.items[1][1].k = <<"key">>
    /\ call.query.items[1][1].v.tag = "scalar"

QueriedKey == call.query.items[1][1].v.vals[1]

\* C13: when destroyOne({key: k}), destroyByKey(k) or delete(entity) returns
\* an entity, it is the row that had key k, the caller sees that row no more
\* and every other row as before, and findByKey(k) raises EntityNotFoundError,
\* now and in every later call made while no row has key k.
C13_DestroyedKeyNotFound ==
    /\ (call.op \in DestroyOneOps /\ QueryIsKey /\ call.error = NoError)
       => /\ Len(call.documents) = 1
          /\ call.documents[1] \in SeenBefore
          /\ call.documents[1].key = QueriedKey
          /\ SeenAfter = SeenBefore \ {call.documents[1]}
          /\ \A r \in SeenAfter : r.key # QueriedKey
          /\ call.options.transaction = "none" => table = call.pre.table \ {call.documents[1]}
          /\ \A qv \in BOOLEAN, limit \in Limits, offset \in Limits :
                \A o \in findByKey(Db, QueriedKey,
                                   Options(qv, FALSE, limit, offset,
                                           call.options.transaction)) :
                    o.error = "EntityNotFoundError"
    /\ (/\ call.op = "findByKey"
        /\ call.options.isQueryValidationDisabled \/ Conforms("key", call.key)
        /\ \A r \in SeenBefore : r.key # call.key)
       => call.error = "EntityNotFoundError"

C13_Witness ==
    /\ call.op = "delete"
    /\ call.error = NoError
    /\ call.options.transaction = "none"
    /\ Cardinality(call.pre.table) = 2
    /\ Cardinality(table) = 1
    /\ "name" \in Keys(call.document)
    /\ Get(call.document, "name") # call.documents[1].name

\* the code with which the backend rejected the insert of the create called,
\* NoError when the call was no create or its insert was not rejected
CreateRejection ==
    IF /\ call.op \in CreateOps
       /\ call.error # NoError
       /\ \/ call.options.isValuesValidationDisabled
          \/ \A i \in DOMAIN call.values : createValuesValidationSchema(call.values[i])
    THEN InsertAll(SeenBefore, nextKey, call.values, <<>>).error
    ELSE NoError

\* C14: whenever the backend rejects create's insert with code 23505, create
\* raises EntityExistsError and no other error, and the error's detail has one
\* entry per field the backend's detail text names, each with the table name
\* and the conflicting values.
C14_UniqueViolationIsEntityExists ==
    CreateRejection = "23505"
    => /\ call.error = "EntityExistsError"
       /\ \A err \in BackendErrors(InsertAll(SeenBefore, nextKey, call.values, <<>>)) :
             LET thrown == EntityExistsError(err)
             IN  thrown.name = "EntityExistsError"
                 => /\ {e.field : e \in thrown.detail} = {<<"key">>}
                    /\ Cardinality(thrown.detail) = 1
                    /\ \A e \in thrown.detail :
                           e.table = tableName /\ Len(e.input) = 1

\* C15: a backend error of create with a code other than 23505 reaches the
\* caller as it is; and in every operation a failed validation, a filter the
\* compiler refuses, a rejected statement and a failed exactly-one check make
\* the operation raise: it returns no document and no count.
C15_ErrorsReachCaller ==
    /\ CreateRejection \notin {NoError, "23505"}
       => call.error = CreateRejection /\ call.documents = <<>>
    /\ FailsValidation => call.error # NoError
    /\ (call.op \in QueryOps \cup {"save", "delete"} /\ BadFilter(call.query))
       => call.error # NoError
    /\ (call.op \in OneOps \cup {"save", "delete"} /\ call.matched >= 0 /\ call.matched # 1)
       => call.error # NoError
    /\ (call.op \notin {"none", "count"} /\ call.matched = -1) => call.error # NoError
    /\ call.error # NoError => call.documents = <<>> /\ call.count = 0

C15_Witness ==
    /\ call.op = "create"
    /\ call.options.isValuesValidationDisabled
    /\ CreateRejection = "22001"
    /\ call.error = "22001"
    /\ Len(call.values) = 2
    /\ call.log = <<Event("insert", "none")>>

BulkOps == {"create", "find", "count", "update", "destroy"}
ExactlyOneOps == OneOps \cup {"save", "delete"}

\* the call raised an error of the engine itself, thrown before a statement is sent
RaisedBeforeStatement ==
    call.error \in ProgrammerErrors \cup {"ValidationError", "Empty .update() call detected!"}

\* C16: createOne, findOne, updateOne and destroyOne (and the operations built
\* on them) called with options.transaction begin no transaction, and the
\* statement they send runs in the transaction supplied.
C16_SuppliedTransactionJoined ==
    (call.op \in ExactlyOneOps /\ call.options.transaction = "caller")
    => /\ \A i \in DOMAIN call.log :
             call.log[i].ev \in Statements /\ call.log[i].trx = "caller"
       /\ Len(call.log) = IF RaisedBeforeStatement THEN 0 ELSE 1
       /\ table = call.pre.table

C16_Witness ==
    /\ call.op = "updateOne"
    /\ call.options.transaction = "caller"
    /\ call.error = NoError
    /\ call.log = <<Event("update", "caller")>>
    /\ trx.open
    /\ trx.view # call.pre.view

\* C17: create, find, count, update and destroy begin, commit and roll back
\* no transaction: the statement they send runs in options.transaction when
\* one is supplied and outside any transaction otherwise.
C17_BulkOpensNoTransaction ==
    call.op \in BulkOps
    => /\ \A i \in DOMAIN call.log :
             /\ call.log[i].ev \in Statements
             /\ call.log[i].trx = call.options.transaction
       /\ call.options.transaction \in {"none", "caller"}
       /\ Len(call.log) = IF RaisedBeforeStatement THEN 0 ELSE 1

C17_Witness ==
    /\ call.op = "count"
    /\ call.options.transaction = "caller"
    /\ call.error = NoError
    /\ call.count = 2
    /\ call.log = <<Event("count", "caller")>>

\* C18: the transaction createOne, findOne, updateOne or destroyOne (or an
\* operation built on them) begins, no transaction being supplied, is finished
\* exactly once before the operation answers: committed when the operation
\* returns an entity, rolled back when it raises, and it raises whenever the
\* number of rows is not one.
C18_OwnTransactionFinished ==
    (call.op \in ExactlyOneOps /\ call.options.transaction = "none")
    => /\ Len(call.log) >= 2
       /\ call.log[1] = Event("begin", "own")
       /\ call.log[Len(call.log)]
             = IF call.error = NoError THEN Event("commit", "own")
               ELSE Event("rollback", "own")
       /\ \A i \in 2..(Len(call.log) - 1) :
             call.log[i].ev \in Statements /\ call.log[i].trx = "own"
       /\ call.error = NoError <=> Len(call.documents) = 1
       /\ (call.matched >= 0 /\ call.matched # 1) => call.error # NoError
       /\ call.error # NoError => table = call.pre.table
       /\ ~trx.open

C18_Witness ==
    /\ call.op = "destroyOne"
    /\ call.options.transaction = "none"
    /\ call.error = NoError
    /\ call.log = OwnLog("delete", "commit")
    /\ Cardinality(call.pre.table) = 2

C19_ConstructionChecks ==
    instance.kind # "none"
    => LET tableArg == instance.args.table
           fieldsArg == instance.args.fields
           refused == \/ ~tableArg.given \/ tableArg.name = ""
                      \/ ~fieldsArg.given \/ fieldsArg.names = <<>>
                      \/ instance.kind = "KeyModel" /\ "key" \notin Range(fieldsArg.names)
       IN  IF refused
           THEN instance.made.state = "failed" /\ instance.made.error # NoError
           ELSE /\ instance.made.state = "constructed"
                /\ instance.made.table = tableArg.name
                /\ instance.made.fields = fieldsArg.names

\* a values object with every non-key field, each value conforming, and no
\* other property
HasAllNonKeyFields(values) ==
    /\ \A f \in Range(fieldNames) : f # "key" => f \in Keys(values)
    /\ \A i \in DOMAIN values :
          values[i].k \in Range(fieldNames) /\ values[i].k # "key"
              /\ Conforms(values[i].k, values[i].v)

\* a values object with some of the non-key fields, each value conforming, and
\* no other property
HasOnlyNonKeyFields(values) ==
    \A i \in DOMAIN values :
        values[i].k \in Range(fieldNames) /\ values[i].k # "key"
            /\ Conforms(values[i].k, values[i].v)

\* C21: with validation enabled, create and createOne raise ValidationError
\* exactly when one of the values objects omits a non-key field, holds a value
\* that does not conform, or holds the key or a property that is no field; the
\* update operations, their query being valid, raise it exactly when the
\* values object holds a value that does not conform, the key or a property
\* that is no field.
C21_ValuesAccepted ==
    /\ (call.op \in CreateOps /\ ~call.options.isValuesValidationDisabled)
       => (call.error = "ValidationError"
              <=> \E i \in DOMAIN call.values : ~HasAllNonKeyFields(call.values[i]))
    /\ (/\ call.op \in UpdateOps
        /\ ~call.options.isValuesValidationDisabled
        /\ call.options.isQueryValidationDisabled \/ queryValidationSchema(call.query))
       => (call.error = "ValidationError" <=> ~HasOnlyNonKeyFields(call.values[1]))

C21_Witness ==
    /\ call.op = "createOne"
    /\ ~call.options.isValuesValidationDisabled
    /\ Keys(call.values[1]) = {"name", "extra"}
    /\ Conforms("name", Get(call.values[1], "name"))
    /\ call.error = "ValidationError"

\* C22: the query item without any property passes the validation of the
\* query, and find called with it returns every row the caller sees (all of
\* them when no limit and no offset is passed).
C22_EmptyItemMatchesAll ==
    /\ ValidatesItem(queryItemValidationSchema, <<>>)
    /\ queryValidationSchema(Single(<<>>))
    /\ (call.op = "find" /\ call.query = Single(<<>>))
       => /\ call.error = NoError
          /\ Range(call.documents) \subseteq SeenBefore
          /\ (call.options.limit = Absent /\ call.options.offset = 0)
             => /\ Range(call.documents) = SeenBefore
                /\ Len(call.documents) = Cardinality(SeenBefore)

C22_Witness ==
    /\ call.op = "find"
    /\ call.query = Single(<<>>)
    /\ ~call.options.isQueryValidationDisabled
    /\ call.options.limit = Absent /\ call.options.offset = 0
    /\ call.error = NoError
    /\ Cardinality(call.pre.table) = 2
    /\ Len(call.documents) = 2

\* a query with the empty array as the value of a field or of its negated form
HasEmptyArray(query) ==
    \E i \in DOMAIN query.items : \E j \in DOMAIN query.items[i] :
        query.items[i][j].v.tag = "array" /\ Len(query.items[i][j].v.vals) = 0

\* C23: the validation of the query accepts, for a field or its negated form,
\* a conforming value or a non-empty array of conforming values only: a query
\* with an empty array, its validation enabled, is rejected by the validation:
\* the operation raises a ValidationError.
C23_EmptyArrayRejected ==
    (/\ call.op \in QueryOps
     /\ ~call.options.isQueryValidationDisabled
     /\ HasEmptyArray(call.query))
    => call.error = "ValidationError"

\* the rows of the table that satisfy a single item
Hit(rows, query) == {r \in rows : ItemHolds(r, query.items[1])}

\* s lists its rows in an order the orderBy clauses allow
Ordered(s, orderBy) == \A i, j \in DOMAIN s : i < j => ~Before(s[j], s[i], orderBy)

\* C24: find returns rows that match, each once; with options.limit = L it
\* returns at most L of them, for every L >= 0, L = 0 included, after skipping
\* the first options.offset of them, in the order of the orderBy clauses
\* applied in their sequence; with no limit and no offset it returns all the
\* rows that match; and when no row matches it returns the empty list and
\* raises nothing.
C24_LimitOffsetOrder ==
    (call.op = "find" /\ ~call.query.isArray /\ ~BadFilter(call.query)
        /\ queryValidationSchema(call.query))
    => LET hit == Hit(SeenBefore, call.query)
           skip == IF call.options.offset = Absent THEN 0 ELSE call.options.offset
           rest == IF Cardinality(hit) > skip THEN Cardinality(hit) - skip ELSE 0
       IN  /\ call.error = NoError
           /\ Range(call.documents) \subseteq hit
           /\ Len(call.documents) = Cardinality(Range(call.documents))
           /\ Ordered(call.documents, call.options.orderBy)
           /\ \E s \in Orderings(hit, call.options.orderBy) :
                 call.documents = SubSeq(s, skip + 1, skip + Len(call.documents))
           /\ call.options.limit # Absent
              => /\ Len(call.documents) <= call.options.limit
                 /\ Len(call.documents)
                       = IF rest < call.options.limit THEN rest ELSE call.options.limit
           /\ call.options.limit = Absent => Len(call.documents) = rest
           /\ hit = {} => call.documents = <<>>

\* the functions that translate a Joi validation error
Translations == {"parseValidationError", "ValidationError.detail", "ValidationError.details"}

\* the items an entry of a translated map holds: the elements of a list, or
\* the entry itself when it is one item
ItemsOf(entry) == IF isArray(entry) THEN entry.array ELSE <<entry>>

\* the value an item carries
ItemValue(item) == IF "value" \in DOMAIN item THEN item.value ELSE item.input

\* the violation's path names a property of the value validated
Resolved(value, violation) == instanceofObject(value) /\ In(violation.path, value)

\* the path the translation applied files a violation under
FiledUnder(value, violation) ==
    IF applied.fn = "parseValidationError" /\ ~Resolved(value, violation) THEN ""
    ELSE violation.path

\* C25: the translation of a Joi validation error holds, for each path, all
\* the violations reported for it in the order reported: the items over all
\* paths are as many as the violations reported, none is dropped or
\* overwritten, and an item carries the value at its path, or the whole
\* input when the path names no property of the input.
C25_AllViolationsKept ==
    (applied.fn \in Translations /\ applied.input.isJoi /\ applied.output.threw = "none")
    => LET value == applied.input.object
           details == applied.input.details
           map == applied.output.map
       IN  /\ Cardinality({<<path, i>> \in (DOMAIN map) \X (1..Len(details)) :
                               i <= Len(ItemsOf(map[path]))})
                 = Len(details)
           /\ \A path \in DOMAIN map :
                 LET filed == SelectSeq(details, LAMBDA v : FiledUnder(value, v) = path)
                     items == ItemsOf(map[path])
                 IN  /\ Len(items) = Len(filed)
                     /\ \A i \in DOMAIN items :
                           /\ items[i].type = filed[i].type
                           /\ items[i].message = filed[i].message
                           /\ ItemValue(items[i])
                                 = IF Resolved(value, filed[i])
                                   THEN get(value, filed[i].path)
                                   ELSE value

\* the update called sent its statement, and the statement gives a row the
\* key of another row: the backend rejects it with code 23505
UpdateRepeatsKey ==
    /\ call.op \in UpdateOps \cup {"save"}
    /\ ~RaisedBeforeStatement
    /\ "key" \in Keys(call.values[1])
    /\ Get(call.values[1], "key") \in KeyValues
    /\ LET hit == Matching(SeenBefore, toSQL(prepareQueryParameters(call.query)).terms)
       IN  \E r \in hit : \E other \in SeenBefore \ {r} :
               other.key = Get(call.values[1], "key")

\* C26: a uniqueness violation (23505) of the statement of update, updateOne,
\* updateByKey or save reaches the caller as EntityExistsError, as it does
\* for create.
C26_UpdateViolationIsEntityExists ==
    UpdateRepeatsKey => call.error = "EntityExistsError"

\* C27: create with validation enabled validates all its values before it
\* sends anything: when one of them fails, no insert is sent and none of the
\* values is stored, those before the failing one included; when all pass,
\* one insert statement is sent for all of them, and when it succeeds every
\* one of them is stored.
C27_AllValidatedBeforeInsert ==
    (call.op = "create" /\ ~call.options.isValuesValidationDisabled)
    => IF \E i \in DOMAIN call.values : ~HasAllNonKeyFields(call.values[i])
       THEN /\ call.error = "ValidationError"
            /\ call.log = <<>>
            /\ call.documents = <<>>
            /\ table = call.pre.table
            /\ trx.view = call.pre.view
       ELSE /\ call.log = <<Event("insert", call.options.transaction)>>
            /\ call.error = NoError
               => /\ Len(call.documents) = Len(call.values)
                  /\ SeenAfter = SeenBefore \cup Range(call.documents)
                  /\ Cardinality(SeenAfter) = Cardinality(SeenBefore) + Len(call.values)
            /\ call.error # NoError => SeenAfter = SeenBefore

C27_Witness ==
    /\ call.op = "create"
    /\ ~call.options.isValuesValidationDisabled
    /\ Len(call.values) = 2
    /\ HasAllNonKeyFields(call.values[1])
    /\ Keys(call.values[2]) = {"name", "extra"}
    /\ call.error = "ValidationError"
    /\ call.log = <<>>
    /\ table = call.pre.table

\* both calls have answered, they were made for the same key, and the table
\* held the row r with that key when each of them was made
BothDestroyed(r) ==
    /\ \A c \in Callers :
          /\ sessions[c].pc = "done"
          /\ sessions[c].key = r.key
          /\ r \in sessions[c].pre

C29_DetailsEntriesAreLists ==
    applied.fn = "ValidationError.details"
    => \A key \in DOMAIN applied.output.map :
           /\ isArray(applied.output.map[key])
           /\ \A i \in DOMAIN applied.output.map[key].array :
                 DOMAIN applied.output.map[key].array[i] = {"value", "type", "message"}

\* the first address of a source: the first element of an array, the string
\* itself otherwise
FirstOf(source) ==
    IF isArray(source)
    THEN IF source.array = <<>> THEN undefinedValue ELSE source.array[1]
    ELSE source

\* the sources of a request in their priority order
Sources(req) == <<req.ip, FirstOf(req.forwarded), req.connection, req.socket>>

\* C30: getIpAddress returns the first address (the text before the first
\* ", ") of the first source that has one, in the order req.ip, the
\* x-forwarded-for header (its first element when it is an array),
\* connection.remoteAddress, socket.remoteAddress: req.ip when it is set; it
\* returns null when no source has an address or the address is 'unknown',
\* and it never throws.
C30_FirstAvailableSource ==
    applied.fn = "getIpAddress"
    => LET sources == Sources(applied.input)
           available == {i \in DOMAIN sources : truthy(sources[i])}
           first == CHOOSE i \in available : \A j \in available : i <= j
       IN  /\ applied.output.threw = "none"
           /\ applied.output.value
                 = IF available = {} \/ sources[first] = Text(<<"unknown">>) THEN Null
                   ELSE Text(split(sources[first].text, ", ")[1])

====
